---- MODULE Spec2Model ----
(***************************************************************************)
(* Open-GPT CLI: the conversation context (context.py), the request        *)
(* assembly and transport of send_request (api.py) and the interaction     *)
(* loop of main (opengpt.py).                                              *)
(*                                                                         *)
(* Python values are modelled as follows.                                  *)
(*   str        a tuple of one-character strings, "" being <<>>            *)
(*   None / x   Optional values are None == <<>> and Some(x) == <<x>>      *)
(*   dict       a function from key strings to values                      *)
(*   list       a tuple                                                    *)
(*   object     mutable dicts that can be aliased live in heap and are     *)
(*              named by their index (a reference)                         *)
(***************************************************************************)
EXTENDS Integers, Sequences, FiniteSets, TLC

VARIABLES
    \* ---- ConversationContext (context.py) and one caller of it
    maxlen,       \* deque maxlen fixed by __init__
    heap,         \* the message dicts ever created, by reference
    history,      \* self.history: references, oldest first
    calls,        \* the add_* calls made so far: [role, text]
    snap,         \* a value returned by get_context() and held by the caller
    snapAt,       \* how many add_* calls had been made when snap was returned
    mutations,    \* how many times the caller has mutated snap
    \* ---- api.send_request (api.py)
    apiPc,        \* "idle", "posting", "returned", "exited"
    apiArgs,      \* the arguments of the call
    apiRequest,   \* the request posted: [headers, payload]
    apiPosts,     \* POSTs attempted by the call
    apiCalls,     \* calls made
    apiReturn,    \* the value returned to the caller, None if none
    apiExit,      \* the status of sys.exit, None if not called
    \* ---- main (opengpt.py)
    pc,           \* "startup", "prompt", "posting", "exited"
    exitStatus,   \* None while running, Some(code) once terminated
    config,       \* [api_key, model, site_url, site_title] after startup
    line,         \* the raw line last read by input(">> ")
    question,     \* the local variable question
    last_question,\* main.last_question (None: attribute not set)
    last_response,\* main.last_response (None: attribute not set)
    request,      \* the request of the send_request call in progress
    posts,        \* POSTs attempted by main's send_request calls
    iterations,   \* loop iterations started
    result,       \* what send_request last returned
    outcome,      \* what the last iteration displayed
    exported,     \* the last export_response call: [question, response, format]
    answered      \* the question of the exchange that set main.last_response

ctxvars == <<maxlen, heap, history, calls, snap, snapAt, mutations>>
apivars == <<apiPc, apiArgs, apiRequest, apiPosts, apiCalls, apiReturn, apiExit>>
mainvars == <<pc, exitStatus, config, line, question, last_question,
              last_response, request, posts, iterations, result, outcome,
              exported, answered>>
vars == <<ctxvars, apivars, mainvars>>

----------------------------------------------------------------------------
\* Bounds of the model

MaxCapacity == 3      \* capacities 0..MaxCapacity are explored
MaxAdds == 4          \* add_* calls per behaviour
MaxMutations == 1     \* caller mutations of a returned value per behaviour
MaxApiCalls == 2      \* api.send_request calls per behaviour
MaxTurns == 3         \* loop iterations of main per behaviour

\* Program constants
DefaultMaxMessages == 10

----------------------------------------------------------------------------
\* Python values

None == <<>>
Some(x) == <<x>>

\* bool(s) of an Optional[str]: None and "" are falsy
Truthy(o) == o # None /\ Len(o[1]) > 0

\* a or None, for a str a
OrNone(s) == IF Len(s) > 0 THEN Some(s) ELSE None

IsSpace(c) == c \in {" ", "\t", "\n"}

RECURSIVE LStrip(_)
LStrip(s) == IF s # <<>> /\ IsSpace(Head(s)) THEN LStrip(Tail(s)) ELSE s

RECURSIVE RStrip(_)
RStrip(s) ==
    IF s # <<>> /\ IsSpace(s[Len(s)]) THEN RStrip(SubSeq(s, 1, Len(s) - 1)) ELSE s

\* str.strip()
Strip(s) == RStrip(LStrip(s))

LowerChar(c) ==
    CASE c = "E" -> "e" [] c = "X" -> "x" [] c = "I" -> "i" [] c = "T" -> "t"
      [] c = "Q" -> "q" [] c = "U" -> "u" [] c = "P" -> "p" [] c = "O" -> "o"
      [] c = "R" -> "r" [] c = "M" -> "m" [] c = "D" -> "d" [] c = "H" -> "h"
      [] OTHER -> c

\* str.lower()
Lower(s) == [i \in 1..Len(s) |-> LowerChar(s[i])]

\* str.startswith(prefix)
StartsWith(s, prefix) ==
    Len(s) >= Len(prefix) /\ SubSeq(s, 1, Len(prefix)) = prefix

----------------------------------------------------------------------------
\* Messages

\* {"role": role, "content": [{"type": "text", "text": message}]}
Message(role, message) ==
    [role |-> role, content |-> <<[type |-> "text", text |-> message]>>]

Texts == { <<"h", "i">>, <<"o", "k">> }
Roles == {"user", "assistant"}

----------------------------------------------------------------------------
\* ConversationContext

\* deque.append on a deque(maxlen=m): a full deque drops its oldest entry
DequeAppendNoEvict(d, x, m) == Append(d, x)
DequeAppend(d, x, m) ==
    IF m = 0 THEN <<>>
    ELSE IF Len(d) = m THEN Append(Tail(d), x)
    ELSE Append(d, x)

\* list(self.history): a new list holding the same message objects
ListCopy(d) == d

\* the messages a list of references denotes
Deref(refs) == [i \in 1..Len(refs) |-> heap[refs[i]]]

AddMessage(role, message) ==
    /\ Len(calls) < MaxAdds
    /\ heap' = Append(heap, Message(role, message))
    /\ history' = DequeAppend(history, Len(heap) + 1, maxlen)
    /\ calls' = Append(calls, [role |-> role, text |-> message])
    /\ UNCHANGED <<maxlen, snap, snapAt, mutations>>

add_user_message ==
    \E message \in Texts :
        AddMessage("user", message) /\ UNCHANGED <<apivars, mainvars>>

add_assistant_message ==
    \E message \in Texts :
        AddMessage("assistant", message) /\ UNCHANGED <<apivars, mainvars>>

get_context ==
    /\ snap' = Some(ListCopy(history))
    /\ snapAt' = Len(calls)
    /\ UNCHANGED <<maxlen, heap, history, calls, mutations>>
    /\ UNCHANGED <<apivars, mainvars>>

\* what get_context() would return now
GetContextValue == Deref(ListCopy(history))

\* ---- the caller mutating a returned list

Held == snap # None /\ mutations < MaxMutations

RemoveAt(s, i) == SubSeq(s, 1, i - 1) \o SubSeq(s, i + 1, Len(s))

\* returned.append(m), m a message the caller holds
CallerAppend ==
    /\ Held
    /\ \E r \in 1..Len(heap) : snap' = Some(Append(snap[1], r))
    /\ mutations' = mutations + 1
    /\ UNCHANGED <<maxlen, heap, history, calls, snapAt>>
    /\ UNCHANGED <<apivars, mainvars>>

\* del returned[i]
CallerRemove ==
    /\ Held
    /\ \E i \in 1..Len(snap[1]) : snap' = Some(RemoveAt(snap[1], i))
    /\ mutations' = mutations + 1
    /\ UNCHANGED <<maxlen, heap, history, calls, snapAt>>
    /\ UNCHANGED <<apivars, mainvars>>

\* returned[i] = m
CallerReplace ==
    /\ Held
    /\ \E i \in 1..Len(snap[1]), r \in 1..Len(heap) :
          /\ snap[1][i] # r
          /\ snap' = Some([snap[1] EXCEPT ![i] = r])
    /\ mutations' = mutations + 1
    /\ UNCHANGED <<maxlen, heap, history, calls, snapAt>>
    /\ UNCHANGED <<apivars, mainvars>>

\* returned[i]["role"] = role: the dict is the one the deque holds
CallerSetRole ==
    /\ Held
    /\ \E i \in 1..Len(snap[1]), role \in Roles \cup {"system"} :
          /\ heap[snap[1][i]].role # role
          /\ heap' = [heap EXCEPT ![snap[1][i]].role = role]
    /\ mutations' = mutations + 1
    /\ UNCHANGED <<maxlen, history, calls, snap, snapAt>>
    /\ UNCHANGED <<apivars, mainvars>>

----------------------------------------------------------------------------
\* JSON values as response.json() decodes them

JDict(f) == [t |-> "dict", k |-> DOMAIN f, v |-> f]
JEmptyDict == [t |-> "dict", k |-> {}, v |-> <<>>]
JList(s) == [t |-> "list", k |-> {}, v |-> s]
JStr(s) == [t |-> "str", k |-> {}, v |-> s]

Raised == [raised |-> TRUE, value |-> None]
Value(x) == [raised |-> FALSE, value |-> x]

\* x[key] for a str key: KeyError on a dict without it, TypeError otherwise
GetKey(x, key) ==
    IF x.t = "dict" /\ key \in x.k THEN Value(x.v[key]) ELSE Raised

\* x[i] for an int i >= 0: IndexError out of range, KeyError on a dict
GetIndex(x, i) ==
    IF x.t \in {"list", "str"} /\ i < Len(x.v)
    THEN Value(IF x.t = "list" THEN x.v[i + 1] ELSE JStr(<<x.v[i + 1]>>))
    ELSE Raised

ThenKey(r, key) == IF r.raised THEN r ELSE GetKey(r.value, key)
ThenIndex(r, i) == IF r.raised THEN r ELSE GetIndex(r.value, i)

\* key in x, for a dict x
PyIn(key, x) == key \in x.k

Txt_4 == <<"4">>
Txt_rate == <<"r", "a", "t", "e">>

Choices(content) ==
    JList(<<JDict([message |-> JDict([content |-> JStr(content)])])>>)

\* The bodies a 2xx answer is decoded to: JSON objects (send_request -> Dict)
\* whose content, where present, is text.
ResultIds == 1..9
ResultAt(i) ==
    CASE i = 1 -> JDict([choices |-> Choices(Txt_4)])
      [] i = 2 -> JDict([choices |-> Choices(<<"o", "k">>)])
      [] i = 3 -> JDict([error |-> JStr(Txt_rate)])
      [] i = 4 -> JDict([error |-> JStr(Txt_rate), choices |-> Choices(Txt_4)])
      [] i = 5 -> JDict([choices |-> JList(<<>>)])
      [] i = 6 -> JEmptyDict
      [] i = 7 -> JDict([choices |-> JList(<<JEmptyDict>>)])
      [] i = 8 -> JDict([choices |-> JList(<<JDict([message |-> JEmptyDict])>>)])
      [] i = 9 -> JDict([choices |-> JDict([message |-> JDict([content |-> JStr(Txt_4)])])])

----------------------------------------------------------------------------
\* api.send_request

Bearer == <<"B", "e", "a", "r", "e", "r", " ">>
ApplicationJson ==
    <<"a", "p", "p", "l", "i", "c", "a", "t", "i", "o", "n", "/", "j", "s", "o", "n">>
Url_example == <<"h", "t", "t", "p", "s", ":", "/", "/", "e", ".", "c">>

ApiKeys == { <<"k", "1">> }
Models == { <<"g", "p", "t">> }
SiteUrls == { None, Some(<<>>), Some(<<" ">>), Some(Url_example) }
SiteTitles == { None, Some(<<>>), Some(<<"T">>) }

History1 == << Message("user", <<"h", "i">>) >>
History3 ==
    << Message("user", <<"h", "i">>), Message("assistant", <<"o", "k">>),
       Message("user", <<"h", "i">>) >>
Histories == { None, Some(<<>>), Some(History1), Some(History3) }

\* headers = {...}; if site_url: ...; if site_title: ...
ApiHeadersAlwaysOptional(api_key, site_url, site_title) ==
    ("Authorization" :> Bearer \o api_key)
      @@ ("Content-Type" :> ApplicationJson)
      @@ (IF site_url # None THEN "HTTP-Referer" :> site_url[1] ELSE <<>>)
      @@ (IF site_title # None THEN "X-Title" :> site_title[1] ELSE <<>>)
ApiHeaders(api_key, site_url, site_title) ==
    ("Authorization" :> Bearer \o api_key)
      @@ ("Content-Type" :> ApplicationJson)
      @@ (IF Truthy(site_url) THEN "HTTP-Referer" :> site_url[1] ELSE <<>>)
      @@ (IF Truthy(site_title) THEN "X-Title" :> site_title[1] ELSE <<>>)

\* if history is None: messages = [the question] else: messages = history
ApiMessagesAppendQuestion(question_, history_) ==
    IF history_ = None THEN << Message("user", question_) >>
    ELSE Append(history_[1], Message("user", question_))
ApiMessages(question_, history_) ==
    IF history_ = None THEN << Message("user", question_) >>
    ELSE history_[1]

ApiPayload(question_, model, history_) ==
    [model |-> model, messages |-> ApiMessages(question_, history_)]

ApiSendRequest ==
    /\ apiPc \in {"idle", "returned"}
    /\ apiCalls < MaxApiCalls
    /\ \E question_ \in Texts, api_key \in ApiKeys, model \in Models,
          site_url \in SiteUrls, site_title \in SiteTitles,
          history_ \in Histories :
          /\ apiArgs' = Some([question |-> question_, api_key |-> api_key,
                              model |-> model, site_url |-> site_url,
                              site_title |-> site_title, history |-> history_])
          /\ apiRequest' =
                Some([headers |-> ApiHeaders(api_key, site_url, site_title),
                      payload |-> ApiPayload(question_, model, history_)])
    /\ apiCalls' = apiCalls + 1
    /\ apiPosts' = apiPosts + 1
    /\ apiPc' = "posting"
    /\ apiReturn' = None
    /\ UNCHANGED apiExit
    /\ UNCHANGED <<ctxvars, mainvars>>

\* return response.json()
ApiPostReturns ==
    /\ apiPc = "posting"
    /\ \E i \in ResultIds : apiReturn' = Some(ResultAt(i))
    /\ apiPc' = "returned"
    /\ UNCHANGED <<apiArgs, apiRequest, apiPosts, apiCalls, apiExit>>
    /\ UNCHANGED <<ctxvars, mainvars>>

\* except HTTPError / except Exception: print, sys.exit(1)
ApiPostRaises ==
    /\ apiPc = "posting"
    /\ apiPc' = "exited"
    /\ apiExit' = Some(1)
    /\ UNCHANGED <<apiArgs, apiRequest, apiPosts, apiCalls, apiReturn>>
    /\ UNCHANGED <<ctxvars, mainvars>>

----------------------------------------------------------------------------
\* opengpt.send_request: the request

CliHeaders(api_key, site_url, site_title) ==
    ("Authorization" :> Bearer \o api_key)
      @@ ("Content-Type" :> ApplicationJson)
      @@ (IF Truthy(site_url) THEN "HTTP-Referer" :> site_url[1] ELSE <<>>)
      @@ (IF Truthy(site_title) THEN "X-Title" :> site_title[1] ELSE <<>>)

CliPayload(question_, model) ==
    [model |-> model, messages |-> << Message("user", question_) >>]

\* except ...: print(...); sys.exit(1). The state of the process afterwards.
OnTransportFailureReturnsError ==
    [pc |-> "prompt", exitStatus |-> None]
OnTransportFailure ==
    [pc |-> "exited", exitStatus |-> Some(1)]

----------------------------------------------------------------------------
\* main: startup

\* os.getenv(name): None when the variable is not set
EnvApiKeys == { None, Some(<<>>), Some(<<"k", "1">>) }
TypedApiKeys == { <<" ">>, <<" ", "k", "2">> }
EnvModels == { None, Some(<<"g", "p", "t">>) }
EnvSiteUrls == { None, Some(<<" ", " ">>), Some(Url_example \o <<" ">>) }
EnvSiteTitles == { None, Some(<<"T">>) }

\* os.getenv(name, "")
GetEnvOrEmpty(v) == IF v = None THEN <<>> ELSE v[1]

MainStartup ==
    /\ pc = "startup"
    /\ \E env_key \in EnvApiKeys, typed \in TypedApiKeys, env_model \in EnvModels,
          env_url \in EnvSiteUrls, env_title \in EnvSiteTitles :
          LET api_key == IF Truthy(env_key) THEN env_key[1] ELSE Strip(typed)
          IN  IF api_key = <<>> \/ ~Truthy(env_model)
              THEN /\ pc' = "exited"
                   /\ exitStatus' = Some(1)
                   /\ UNCHANGED config
              ELSE /\ pc' = "prompt"
                   /\ config' =
                        Some([api_key |-> api_key,
                              model |-> env_model[1],
                              site_url |-> OrNone(Strip(GetEnvOrEmpty(env_url))),
                              site_title |-> OrNone(Strip(GetEnvOrEmpty(env_title)))])
                   /\ UNCHANGED exitStatus
    /\ UNCHANGED <<line, question, last_question, last_response, request, posts,
                   iterations, result, outcome, exported, answered>>
    /\ UNCHANGED <<ctxvars, apivars>>

----------------------------------------------------------------------------
\* main: the loop

W_exit == <<"e", "x", "i", "t">>
W_quit == <<"q", "u", "i", "t">>
W_export_ == <<"/", "e", "x", "p", "o", "r", "t", "-">>
W_export_md == W_export_ \o <<"m", "d">>
W_export_html == W_export_ \o <<"h", "t", "m", "l">>

\* what the user may type at the prompt
Lines ==
    { <<>>, <<" ", " ">>,
      <<"h", "i">>, <<" ", "o", "k", " ">>,
      W_exit, <<" ", "E", "X", "I", "T", " ">>, <<"Q", "u", "i", "t">>,
      W_export_md, <<" ">> \o W_export_html, W_export_ \o <<"p", "d", "f">> }

\* question.lower() in ['exit', 'quit']
IsExitCaseSensitive(q) == q \in {W_exit, W_quit}
IsExit(q) == Lower(q) \in {W_exit, W_quit}

\* the if question.startswith("/export-") block
HandleExport(q) ==
    IF last_question = None \/ last_response = None
    THEN /\ outcome' = "NoPrevious"
         /\ UNCHANGED exported
    ELSE IF q = W_export_md
    THEN /\ outcome' = "Exported"
         /\ exported' = Some([question |-> last_question[1],
                              response |-> last_response[1],
                              format |-> "markdown"])
    ELSE IF q = W_export_html
    THEN /\ outcome' = "Exported"
         /\ exported' = Some([question |-> last_question[1],
                              response |-> last_response[1],
                              format |-> "html"])
    ELSE /\ outcome' = "Nothing"
         /\ UNCHANGED exported

\* one pass of the while loop from input() to the POST of send_request
ReadInput ==
    /\ pc = "prompt"
    /\ iterations < MaxTurns
    /\ iterations' = iterations + 1
    /\ \E raw \in Lines :
          LET q == Strip(raw) IN
          /\ line' = raw
          /\ question' = q
          /\ IF IsExit(q)
             THEN /\ pc' = "exited"
                  /\ exitStatus' = Some(0)
                  /\ outcome' = "Goodbye"
                  /\ UNCHANGED <<last_question, request, posts, exported>>
             ELSE IF StartsWith(q, W_export_)
             THEN /\ HandleExport(q)
                  /\ UNCHANGED <<pc, exitStatus, last_question, request, posts>>
             ELSE /\ last_question' = Some(q)
                  /\ request' =
                       Some([headers |-> CliHeaders(config[1].api_key,
                                                    config[1].site_url,
                                                    config[1].site_title),
                             payload |-> CliPayload(q, config[1].model)])
                  /\ posts' = posts + 1
                  /\ pc' = "posting"
                  /\ outcome' = "Thinking"
                  /\ UNCHANGED <<exitStatus, exported>>
    /\ UNCHANGED <<config, last_response, result, answered>>
    /\ UNCHANGED <<ctxvars, apivars>>

\* requests.post, raise_for_status or response.json() raises
PostRaises ==
    /\ pc = "posting"
    /\ \E err \in {"HTTPError", "ConnectionError", "JSONDecodeError"} :
          outcome' = (IF err = "HTTPError" THEN "HTTP Error" ELSE "Error")
    /\ pc' = OnTransportFailure.pc
    /\ exitStatus' = OnTransportFailure.exitStatus
    /\ UNCHANGED <<config, line, question, last_question, last_response, request,
                   posts, iterations, result, exported, answered>>
    /\ UNCHANGED <<ctxvars, apivars>>

\* result["choices"][0]["message"]["content"]
ExtractContent(r) ==
    ThenKey(ThenKey(ThenIndex(GetKey(r, "choices"), 0), "message"), "content")

\* which branch of the display code runs for a result
ClassifyChoicesFirst(r) ==
    IF ~ExtractContent(r).raised THEN "Success"
    ELSE IF PyIn("error", r) THEN "ApiError"
    ELSE "MalformedResponse"
Classify(r) ==
    IF PyIn("error", r) THEN "ApiError"
    ELSE IF ExtractContent(r).raised THEN "MalformedResponse"
    ELSE "Success"

\* Confirm.ask and the format choice after a displayed answer
ExportChoices == {"no", "1", "2", "other"}

\* send_request returns; the rest of the loop body
PostReturns ==
    /\ pc = "posting"
    /\ \E i \in ResultIds, choice \in ExportChoices :
          LET r == ResultAt(i)
              kind == Classify(r)
          IN
          /\ result' = Some(r)
          /\ outcome' = kind
          /\ IF kind = "Success"
             THEN LET content == ExtractContent(r).value.v IN
                  /\ last_response' = Some(content)
                  /\ answered' = Some(question)
                  /\ exported' =
                       IF choice = "1"
                       THEN Some([question |-> question, response |-> content,
                                  format |-> "markdown"])
                       ELSE IF choice = "2"
                       THEN Some([question |-> question, response |-> content,
                                  format |-> "html"])
                       ELSE exported
             ELSE /\ choice = "no"
                  /\ UNCHANGED <<last_response, exported, answered>>
    /\ pc' = "prompt"
    /\ UNCHANGED <<exitStatus, config, line, question, last_question, request,
                   posts, iterations>>
    /\ UNCHANGED <<ctxvars, apivars>>

----------------------------------------------------------------------------
\* Specifications

InitContext ==
    /\ heap = <<>>
    /\ history = <<>>
    /\ calls = <<>>
    /\ snap = None
    /\ snapAt = 0
    /\ mutations = 0

InitApi ==
    /\ apiPc = "idle"
    /\ apiArgs = None
    /\ apiRequest = None
    /\ apiPosts = 0
    /\ apiCalls = 0
    /\ apiReturn = None
    /\ apiExit = None

InitMain ==
    /\ pc = "startup"
    /\ exitStatus = None
    /\ config = None
    /\ line = <<>>
    /\ question = <<>>
    /\ last_question = None
    /\ last_response = None
    /\ request = None
    /\ posts = 0
    /\ iterations = 0
    /\ result = None
    /\ outcome = "none"
    /\ exported = None
    /\ answered = None

\* main
Init == maxlen = DefaultMaxMessages /\ InitContext /\ InitApi /\ InitMain
Next == MainStartup \/ ReadInput \/ PostRaises \/ PostReturns
Spec == Init /\ [][Next]_vars

\* a ConversationContext(max_messages) and its add_* / get_context calls
InitCtx == maxlen \in 0..MaxCapacity /\ InitContext /\ InitApi /\ InitMain
NextContext == add_user_message \/ add_assistant_message \/ get_context
SpecContext == InitCtx /\ [][NextContext]_vars

\* the same with a caller that mutates what get_context returned
NextSnapshot ==
    \/ add_user_message \/ add_assistant_message \/ get_context
    \/ CallerAppend \/ CallerRemove \/ CallerReplace \/ CallerSetRole
SpecSnapshot == InitCtx /\ [][NextSnapshot]_vars

\* calls of api.send_request
NextApi == ApiSendRequest \/ ApiPostReturns \/ ApiPostRaises
SpecApi == Init /\ [][NextApi]_vars

----------------------------------------------------------------------------
\* Properties of ConversationContext

Min(a, b) == IF a < b THEN a ELSE b

\* the last m of the first n add_* calls, as the messages they created
LastAdded(n, m) ==
    [i \in 1..m |-> Message(calls[n - m + i].role, calls[n - m + i].text)]

\* C1: after n add_user_message / add_assistant_message calls on a context of
\* capacity K, get_context() returns exactly the last min(n, K) messages added,
\* oldest first, each with the role of its call; so its length never exceeds
\* K, nothing is evicted while n <= K, and the length is K when n > K.
C1_LastKInOrder ==
    /\ snap # None =>
          /\ Deref(snap[1]) = LastAdded(snapAt, Min(snapAt, maxlen))
          /\ Len(snap[1]) <= maxlen
          /\ (snapAt <= maxlen => Len(snap[1]) = snapAt)
          /\ (snapAt > maxlen => Len(snap[1]) = maxlen)
    /\ GetContextValue = LastAdded(Len(calls), Min(Len(calls), maxlen))

\* a context of capacity 2 that has evicted: the value returned after three
\* or more additions of both roles
C1_Witness ==
    /\ snap # None
    /\ maxlen = 2
    /\ snapAt >= 3
    /\ Len(snap[1]) = 2
    /\ heap[snap[1][1]].role = "assistant"
    /\ heap[snap[1][2]].role = "user"
    /\ heap[1].role = "user"

\* C2: get_context() returns a snapshot: no mutation the caller performs on
\* the returned value (appending, removing or replacing entries, changing a
\* returned message) changes what get_context() returns afterwards, and no
\* later add_* call changes a value returned before.
C2_SnapshotIsolation ==
    [][ /\ (mutations' # mutations => GetContextValue' = GetContextValue)
        /\ (Len(calls') # Len(calls) /\ snap # None =>
               Deref(snap[1])' = Deref(snap[1])) ]_vars

----------------------------------------------------------------------------
\* Properties of api.send_request

\* C3: called with history None or with an empty history, send_request posts
\* a payload whose messages are exactly one user turn holding the question.
C3_NoHistorySingleQuestion ==
    (apiRequest # None /\
        (apiArgs[1].history = None \/ Len(apiArgs[1].history[1]) = 0))
    => apiRequest[1].payload.messages = << Message("user", apiArgs[1].question) >>

\* C4: called with a non-empty history, send_request posts a payload whose
\* messages are that history verbatim (the question is not appended) and
\* whose model is the model argument.
C4_HistoryVerbatim ==
    (apiRequest # None /\ apiArgs[1].history # None
        /\ Len(apiArgs[1].history[1]) > 0)
    => /\ apiRequest[1].payload.messages = apiArgs[1].history[1]
       /\ apiRequest[1].payload.model = apiArgs[1].model

\* a request in flight built from a three-message history whose last entry
\* is not the question asked
C4_Witness ==
    /\ apiPc = "posting"
    /\ apiArgs[1].history = Some(History3)
    /\ apiArgs[1].question = <<"o", "k">>
    /\ Len(apiRequest[1].payload.messages) = 3

HeaderNames == {"Authorization", "Content-Type", "HTTP-Referer", "X-Title"}

\* C5: every request carries Authorization: Bearer <apiKey> and
\* Content-Type: application/json; HTTP-Referer is present exactly when
\* site_url is non-empty, then with that value, and X-Title exactly when
\* site_title is non-empty; no header has an empty value.
C5_Headers ==
    apiRequest # None =>
        LET h == apiRequest[1].headers
            a == apiArgs[1]
        IN  /\ DOMAIN h \subseteq HeaderNames
            /\ "Authorization" \in DOMAIN h
            /\ h["Authorization"] = Bearer \o a.api_key
            /\ "Content-Type" \in DOMAIN h
            /\ h["Content-Type"] = ApplicationJson
            /\ ("HTTP-Referer" \in DOMAIN h) <=>
                  (a.site_url # None /\ a.site_url[1] # <<>>)
            /\ ("HTTP-Referer" \in DOMAIN h => h["HTTP-Referer"] = a.site_url[1])
            /\ ("X-Title" \in DOMAIN h) <=>
                  (a.site_title # None /\ a.site_title[1] # <<>>)
            /\ ("X-Title" \in DOMAIN h => h["X-Title"] = a.site_title[1])
            /\ \A name \in DOMAIN h : h[name] # <<>>

\* a request posted with site_url "" and a site title
C5_Witness ==
    /\ apiPc = "posting"
    /\ apiArgs[1].site_url = Some(<<>>)
    /\ apiArgs[1].site_title = Some(<<"T">>)
    /\ DOMAIN apiRequest[1].headers = {"Authorization", "Content-Type", "X-Title"}

----------------------------------------------------------------------------
\* Properties of main

TransportFailed == outcome \in {"HTTP Error", "Error"}

\* C6: on a transport failure send_request returns nothing: the process ends
\* with a non-zero status, the call made exactly one POST and none is made
\* again, and the loop runs no further iteration.
C6_TransportFailureTerminates ==
    [][ /\ (pc = "prompt" /\ pc' = "posting" => posts' = posts + 1)
        /\ (pc = "posting" /\ TransportFailed' =>
               /\ pc' = "exited"
               /\ exitStatus' # None
               /\ exitStatus'[1] # 0
               /\ result' = result
               /\ last_response' = last_response
               /\ posts' = posts)
        /\ (TransportFailed =>
               /\ iterations' = iterations
               /\ posts' = posts
               /\ pc' = pc) ]_vars

\* the second request of a session fails
C6_Witness ==
    /\ TransportFailed
    /\ posts = 2
    /\ result # None
    /\ pc = "exited"
    /\ exitStatus = Some(1)

HasErrorKey(r) == r.t = "dict" /\ "error" \in r.k

\* r.choices[0].message.content is there
HasContent(r) ==
    /\ r.t = "dict" /\ "choices" \in r.k
    /\ r.v["choices"].t = "list" /\ Len(r.v["choices"].v) >= 1
    /\ LET c == r.v["choices"].v[1] IN
       /\ c.t = "dict" /\ "message" \in c.k
       /\ c.v["message"].t = "dict" /\ "content" \in c.v["message"].k

ContentOf(r) == r.v["choices"].v[1].v["message"].v["content"].v

Expected(r) ==
    IF HasErrorKey(r) THEN "ApiError"
    ELSE IF HasContent(r) THEN "Success"
    ELSE "MalformedResponse"

C8_BlankInputNoRequest ==
    [][ (pc = "prompt" /\ iterations' = iterations + 1 /\ Strip(line') = <<>>) =>
           /\ posts' = posts
           /\ pc' = "prompt" ]_vars

\* C9: in an iteration that issues a request the question is appended to the
\* Conversation Context as a user turn before the payload is built from the
\* context snapshot, and the reply is appended as an assistant turn exactly
\* when the outcome is Success.
C9_ContextUpdatedAroundRequest ==
    /\ pc = "posting" =>
          /\ Len(history) > 0
          /\ heap[history[Len(history)]] = Message("user", question)
          /\ request[1].payload.messages = GetContextValue
    /\ outcome = "Success" =>
          /\ Len(history) > 0
          /\ heap[history[Len(history)]] = Message("assistant", last_response[1])
    /\ outcome \in {"ApiError", "MalformedResponse"} =>
          /\ Len(history) > 0
          /\ heap[history[Len(history)]].role = "user"

ExitKeyword(raw) == Lower(Strip(raw)) \in {W_exit, W_quit}
ExportCommand(raw) == Strip(raw) \in {W_export_md, W_export_html}

\* C10: an exit keyword (exit, quit, in any case, trimmed) or an export
\* command (/export-md, /export-html) never causes an API request: the exit
\* keyword ends the loop, the export command is handled locally and the loop
\* prompts again, with or without a previous exchange.
C10_SpecialInputNoRequest ==
    [][ (pc = "prompt" /\ iterations' = iterations + 1) =>
           /\ (ExitKeyword(line') =>
                  /\ posts' = posts
                  /\ request' = request
                  /\ pc' = "exited"
                  /\ exitStatus' = Some(0))
           /\ (ExportCommand(line') =>
                  /\ posts' = posts
                  /\ request' = request
                  /\ pc' = "prompt"
                  /\ exitStatus' = None
                  /\ outcome' \in {"Exported", "NoPrevious"}) ]_vars

\* EXIT typed in capitals between blanks ended the loop in the third
\* iteration of a session that had made one request
C10_Witness ==
    /\ line = <<" ", "E", "X", "I", "T", " ">>
    /\ pc = "exited"
    /\ exitStatus = Some(0)
    /\ iterations = 3
    /\ posts = 1
    /\ outcome = "Goodbye"

\* C11: whenever an /export-md or /export-html command writes an export, the
\* question and the response it exports belong to one and the same
\* successful exchange: the stored question is the one that produced the
\* stored response, after any sequence of successful and failed exchanges.
\* Stated for sessions whose stored questions are not blank.
C11_ExportedPairFromOneExchange ==
    (outcome = "Exported" /\ answered # None /\ answered[1] # <<>>
        /\ last_question[1] # <<>>) =>
        /\ exported # None
        /\ answered # None
        /\ exported[1].response = last_response[1]
        /\ exported[1].question = answered[1]

====
